---- MODULE Spec2Model ----
(***************************************************************************)
(* Model of the Handlebars -> Sline transpiler core of src/main.rs:        *)
(* transpile, find_block_close, transform_tag, parse_each and              *)
(* transform_expression.                                                   *)
(*                                                                         *)
(* Text is modelled character by character: a Rust &str / String is a      *)
(* sequence of one-character strings, and a byte offset of the source is   *)
(* a 0-based offset into that sequence (every character used is ASCII).    *)
(* One loop iteration of transpile is one action; the pure helpers are     *)
(* operators computed the way the code computes them.                      *)
(***************************************************************************)
EXTENDS Integers, Sequences, FiniteSets, TLC

(***************************************************************************)
(* String primitives of the Rust standard library used by the code.        *)
(***************************************************************************)

\* Option::None of str::find.
None == -1

\* &s[a..b]
Slice(s, a, b) == SubSeq(s, a + 1, b)

\* &s[a..]
From(s, a) == SubSeq(s, a + 1, Len(s))

\* pat occurs in s at offset i.
matches_at(s, pat, i) ==
    i + Len(pat) <= Len(s) /\ \A k \in 1..Len(pat) : s[i + k] = pat[k]

\* The offset of the first occurrence of pat in s at or after offset i, or None.
RECURSIVE find_from(_, _, _)
find_from(s, pat, i) ==
    IF i + Len(pat) > Len(s) THEN None
    ELSE IF matches_at(s, pat, i) THEN i
    ELSE find_from(s, pat, i + 1)

\* str::starts_with
starts_with(s, p) == matches_at(s, p, 0)

\* str::find: the offset of the first occurrence of pat in s, or None.
find(s, pat) == find_from(s, pat, 0)

\* char::is_whitespace, on the characters the inputs are written with.
is_whitespace(c) == c \in {" ", "\t", "\n", "\r"}

\* str::trim_start
RECURSIVE trim_start(_)
trim_start(s) ==
    IF s # <<>> /\ is_whitespace(Head(s)) THEN trim_start(Tail(s)) ELSE s

\* str::trim_end
RECURSIVE trim_end(_)
trim_end(s) ==
    IF s # <<>> /\ is_whitespace(s[Len(s)])
    THEN trim_end(SubSeq(s, 1, Len(s) - 1)) ELSE s

\* str::trim: strips leading and trailing whitespace.
trim(s) == trim_end(trim_start(s))

(***************************************************************************)
(* Diagnostics.  A message is a string; format! is string concatenation    *)
(* with the decimal rendering of the number.                               *)
(***************************************************************************)

Diagnostic(level, message) == [level |-> level, message |-> message]

\* A push that drops a diagnostic already recorded.
push_dedup(diagnostics, d) ==
    IF \E i \in 1..Len(diagnostics) : diagnostics[i] = d
    THEN diagnostics ELSE Append(diagnostics, d)

\* Vec::push on the diagnostics.
push(diagnostics, d) == Append(diagnostics, d)

UnclosedComment == Diagnostic("Error", "Unclosed {{#comment}} block")
UnclosedEach == Diagnostic("Error", "Unclosed block: each")
UnexpectedClose == Diagnostic("Error", "Unexpected closing tag /each")
WithNotConverted == Diagnostic("Warning", "Handlebars #with blocks are not converted")
ParentNotSupported ==
    Diagnostic("Error", "Parent scope access (../) is not supported in Sline")
ThisWithoutEach == Diagnostic("Warning", "Found {{this}} without an each context")
Stripped(count) ==
    Diagnostic("Warning",
               "Stripped " \o ToString(count) \o " parent scope segments (../)")

(***************************************************************************)
(* parse_each                                                              *)
(***************************************************************************)

\* Returns <<expr, alias>>.
parse_each(rest) ==
    LET marker == <<" ", "a", "s", " ", "|">>
        pos == find(rest, marker)
        after == From(rest, pos + Len(marker))
        e == find(after, <<"|">>)
        alias == trim(Slice(after, 0, e))
    IN  IF pos # None /\ e # None /\ alias # <<>>
        THEN <<trim(Slice(rest, 0, pos)), alias>>
        ELSE <<trim(rest), <<"i", "t", "e", "m">>>>

(***************************************************************************)
(* transform_expression                                                    *)
(***************************************************************************)

\* A strip that removes the first ../ segment only.
strip_parent_one(content) ==
    IF starts_with(content, <<".", ".", "/">>) THEN <<From(content, 3), 1>> ELSE <<content, 0>>

\* The while loop of lines 384-389: <<stripped, count>>.
RECURSIVE strip_parent(_)
strip_parent(content) ==
    IF starts_with(content, <<".", ".", "/">>)
    THEN LET r == strip_parent(From(content, 3)) IN <<r[1], r[2] + 1>>
    ELSE <<content, 0>>

\* alias is <<>> for Option::None and <<a>> for Some(a).
\* Returns [result, diagnostics].
transform_expression(tag, alias, options, diagnostics) ==
    LET content0 == trim(tag)
        parent == starts_with(content0, <<".", ".", "/">>)
        sp == strip_parent(content0)
        content == IF parent THEN sp[1] ELSE content0
        diags == IF parent THEN push(diagnostics, Stripped(sp[2])) ELSE diagnostics
    IN  IF parent /\ ~options.allow_parent
        THEN [result |-> tag, diagnostics |-> push(diagnostics, ParentNotSupported)]
        ELSE IF alias # <<>>
        THEN IF content = <<"t", "h", "i", "s">>
             THEN [result |-> alias[1], diagnostics |-> diags]
             ELSE IF starts_with(content, <<"t", "h", "i", "s", ".">>)
             THEN [result |-> alias[1] \o <<".">> \o From(content, 5), diagnostics |-> diags]
             ELSE IF starts_with(content, <<".", "/">>)
             THEN [result |-> alias[1] \o <<".">> \o From(content, 2), diagnostics |-> diags]
             ELSE [result |-> content, diagnostics |-> diags]
        ELSE IF content = <<"t", "h", "i", "s">>
             THEN [result |-> content, diagnostics |-> push(diags, ThisWithoutEach)]
             ELSE IF starts_with(content, <<"t", "h", "i", "s", ".">>)
             THEN [result |-> From(content, 5), diagnostics |-> diags]
             ELSE IF starts_with(content, <<".", "/">>)
             THEN [result |-> From(content, 2), diagnostics |-> diags]
             ELSE [result |-> content, diagnostics |-> diags]

(***************************************************************************)
(* transform_tag                                                           *)
(***************************************************************************)

\* BlockContext::Each { alias }
Each(alias) == [alias |-> alias]

\* An #each branch that forgets the push.
push_each_none(stack, alias) == stack

\* stack.push(BlockContext::Each { alias }) of the #each branch.
push_each(stack, alias) == Append(stack, Each(alias))

\* A pop that clears the stack.
pop_all(stack) == <<>>

\* stack.pop(): the stack after the pop (an empty stack stays empty).
pop(stack) == IF stack = <<>> THEN <<>> ELSE SubSeq(stack, 1, Len(stack) - 1)

\* An alias lookup that forgets the .rev(): the alias of the bottom entry.
current_alias_first(stack) == IF stack = <<>> THEN <<>> ELSE <<stack[1].alias>>

\* stack.iter().rev().map(alias).next(): the alias of the top entry.
current_alias(stack) == IF stack = <<>> THEN <<>> ELSE <<stack[Len(stack)].alias>>

\* Returns [result, stack, diagnostics].
transform_tag(tag, stack, options, diagnostics) ==
    IF starts_with(tag, <<"#", "e", "a", "c", "h">>)
    THEN LET pe == parse_each(trim(From(tag, 5)))
         IN  [result |-> <<"#", "f", "o", "r", " ">> \o pe[2] \o <<" ", "i", "n", " ">> \o pe[1],
              stack |-> push_each(stack, pe[2]),
              diagnostics |-> diagnostics]
    ELSE IF tag = <<"/", "e", "a", "c", "h">>
    THEN [result |-> <<"/", "f", "o", "r">>,
          stack |-> pop(stack),
          diagnostics |-> IF stack = <<>> THEN push(diagnostics, UnexpectedClose)
                          ELSE diagnostics]
    ELSE IF starts_with(tag, <<"#", "u", "n", "l", "e", "s", "s">>)
    THEN [result |-> <<"#", "i", "f", " ", "!", "(">> \o trim(From(tag, 7)) \o <<")">>,
          stack |-> stack, diagnostics |-> diagnostics]
    ELSE IF tag = <<"/", "u", "n", "l", "e", "s", "s">>
    THEN [result |-> <<"/", "i", "f">>, stack |-> stack, diagnostics |-> diagnostics]
    ELSE IF starts_with(tag, <<"#", "i", "f">>)
    THEN [result |-> <<"#", "i", "f", " ">> \o trim(From(tag, 3)),
          stack |-> stack, diagnostics |-> diagnostics]
    ELSE IF tag = <<"/", "i", "f">>
    THEN [result |-> <<"/", "i", "f">>, stack |-> stack, diagnostics |-> diagnostics]
    ELSE IF tag = <<"e", "l", "s", "e">>
    THEN [result |-> <<"e", "l", "s", "e">>, stack |-> stack, diagnostics |-> diagnostics]
    ELSE IF starts_with(tag, <<"#", "w", "i", "t", "h">>) \/ tag = <<"/", "w", "i", "t", "h">>
    THEN [result |-> tag, stack |-> stack,
          diagnostics |-> push(diagnostics, WithNotConverted)]
    ELSE LET te == transform_expression(tag, current_alias(stack), options, diagnostics)
         IN  [result |-> te.result, stack |-> stack, diagnostics |-> te.diagnostics]

(***************************************************************************)
(* find_block_close                                                        *)
(***************************************************************************)

\* Returns <<>> for Option::None and <<[start, end]>> for Some(BlockClose).
RECURSIVE find_block_close(_, _, _)
find_block_close(source, start_index, name) ==
    LET close_tag == <<"/">> \o name
        relative_start == find(From(source, start_index), <<"{", "{">>)
        open == start_index + relative_start
        is_triple == starts_with(From(source, open), <<"{", "{", "{">>)
        open_len == IF is_triple THEN 3 ELSE 2
        close_seq == IF is_triple THEN <<"}", "}", "}">> ELSE <<"}", "}">>
        search_start == open + open_len
        close_relative == find(From(source, search_start), close_seq)
        close == search_start + close_relative
        token_trim == trim(Slice(source, search_start, close))
    IN  IF relative_start = None THEN <<>>
        ELSE IF close_relative = None THEN <<>>
        ELSE IF token_trim = close_tag
        THEN <<[start |-> open, end |-> close + Len(close_seq)]>>
        ELSE find_block_close(source, close + Len(close_seq), name)

(***************************************************************************)
(* The inputs.  An input is the concatenation of at most MaxFragments      *)
(* fragments of a fixed library of template pieces; frags records the      *)
(* pieces it was built from and never changes.                             *)
(***************************************************************************)

MaxFragments == 3

Fragment ==
    [ text        |-> <<"t">>,
      each_x      |-> <<"{", "{", "#", "e", "a", "c", "h", " ", "a", " ", "a", "s", " ", "|", "x", "|", "}", "}">>,
      each_close  |-> <<"{", "{", "/", "e", "a", "c", "h", "}", "}">>,
      this        |-> <<"{", "{", " ", "t", "h", "i", "s", " ", "}", "}">>,
      dot_f       |-> <<"{", "{", "{", ".", "/", "f", "}", "}", "}">>,
      parent      |-> <<"{", "{", ".", ".", "/", "f", "o", "o", "}", "}">>,
      parent2     |-> <<"{", "{", " ", ".", ".", "/", ".", ".", "/", "t", "h", "i", "s", ".", "f", " ", "}", "}">>,
      comment     |-> <<"{", "{", "#", "c", "o", "m", "m", "e", "n", "t", "}", "}">>,
      comment_end |-> <<"{", "{", " ", "/", "c", "o", "m", "m", "e", "n", "t", " ", "}", "}">>,
      literal     |-> <<"{", "{", "!", "-", "-", "c", "-", "-", "}", "}">>,
      with        |-> <<"{", "{", "#", "w", "i", "t", "h", " ", "p", "}", "}">>,
      open        |-> <<"{", "{", "u">>,
      inner       |-> <<"{", "{", "#", "e", "a", "c", "h", " ", "c", "}", "}", "{", "{", "t", "h", "i", "s", "}", "}", "{", "{", "/", "e", "a", "c", "h", "}", "}">> ]

FragmentNames == DOMAIN Fragment

RECURSIVE Concat(_)
Concat(names) ==
    IF names = <<>> THEN <<>> ELSE Fragment[Head(names)] \o Concat(Tail(names))

FragmentSeqs == UNION {[1..n -> FragmentNames] : n \in 1..MaxFragments}

(***************************************************************************)
(* transpile                                                               *)
(***************************************************************************)

VARIABLES
    frags,        \* the fragments the input was built from
    input,        \* input: &str
    options,      \* options: &Options
    diagnostics,  \* let mut diagnostics
    output,       \* let mut output
    index,        \* let mut index
    stack,        \* let mut stack
    pc,           \* "scan": at the head of the while loop; "returned": after a return
    last,         \* what the last loop iteration did: its branch, tag offset and token
    seen          \* the trimmed tokens passed to transform_tag so far, in order

vars == <<frags, input, options, diagnostics, output, index, stack, pc, last, seen>>

Init ==
    /\ frags \in FragmentSeqs
    /\ input = Concat(frags)
    /\ options \in [allow_parent : BOOLEAN]
    /\ diagnostics = <<>>
    /\ output = <<>>
    /\ index = 0
    /\ stack = <<>>
    /\ pc = "scan"
    /\ last = [kind |-> "init", start |-> 0, token |-> <<>>]
    /\ seen = <<>>

\* The locals of one iteration of the while loop that starts at offset idx
\* (lines 193-211), as far as the iteration computes them.
iteration(idx) ==
    LET relative_start == find(From(input, idx), <<"{", "{">>)
        start == idx + relative_start
        is_triple == starts_with(From(input, start), <<"{", "{", "{">>)
        open_len == IF is_triple THEN 3 ELSE 2
        close_seq == IF is_triple THEN <<"}", "}", "}">> ELSE <<"}", "}">>
        search_start == start + open_len
        close_relative == find(From(input, search_start), close_seq)
        end == search_start + close_relative
        token_raw == Slice(input, search_start, end)
    IN  IF relative_start = None
        THEN [relative_start |-> None]
        ELSE IF close_relative = None
        THEN [relative_start |-> relative_start, start |-> start,
              is_triple |-> is_triple, search_start |-> search_start,
              close_relative |-> None]
        ELSE [relative_start |-> relative_start, start |-> start,
              is_triple |-> is_triple, search_start |-> search_start,
              close_relative |-> close_relative, end |-> end,
              token_trim |-> trim(token_raw),
              tag_end |-> end + Len(close_seq)]

\* The loop condition holds and the tag found has a closing delimiter.
AtTag(it) == it.relative_start # None /\ it.close_relative # None

\* token_trim.starts_with("!--")
is_literal_comment(it) == starts_with(it.token_trim, <<"!", "-", "-">>)

\* A driver without the comment-block branch.
is_comment_open_never(it) == FALSE

\* token_trim.starts_with("#comment")
is_comment_open(it) == starts_with(it.token_trim, <<"#", "c", "o", "m", "m", "e", "n", "t">>)

\* find_block_close(input, end + close_seq.len(), "comment")
close_end(it) == find_block_close(input, it.tag_end, <<"c", "o", "m", "m", "e", "n", "t">>)

\* An early return that drops the opening delimiter.
rest_after_delimiter(it) == From(input, it.search_start)

\* &input[start..] pushed by the early return.
rest_of_input(it) == From(input, it.start)

\* An inner text that starts at the closing delimiter of the opening tag.
inner_from_end(it, ce) == Slice(input, it.end, ce.start)

\* &input[end + close_seq.len()..close_end.start]
inner(it, ce) == Slice(input, it.tag_end, ce.start)

\* The wrapping of lines 239-247.
wrap(it, transformed) ==
    IF it.is_triple THEN <<"{", "{", "{", " ">> \o transformed \o <<" ", "}", "}", "}">>
    ELSE <<"{", "{", " ">> \o transformed \o <<" ", "}", "}">>

Did(kind, it) == [kind |-> kind, start |-> it.start, token |-> it.token_trim]

\* Lines 202-208: no closing delimiter in the rest of the input.
Unterminated ==
    /\ pc = "scan"
    /\ \E it \in {iteration(index)} :
           /\ it.relative_start # None /\ it.close_relative = None
           /\ output' = output \o Slice(input, index, it.start) \o rest_of_input(it)
           /\ last' = [kind |-> "unterminated", start |-> it.start, token |-> <<>>]
    /\ pc' = "returned"
    /\ UNCHANGED <<frags, input, options, diagnostics, index, stack, seen>>

\* Lines 213-217: a literal comment is copied with its delimiters.
LiteralComment ==
    /\ pc = "scan"
    /\ \E it \in {iteration(index)} :
           /\ AtTag(it) /\ is_literal_comment(it)
           /\ output' = output \o Slice(input, index, it.start)
                          \o Slice(input, it.start, it.tag_end)
           /\ index' = it.tag_end
           /\ last' = Did("literal_comment", it)
    /\ UNCHANGED <<frags, input, options, diagnostics, stack, pc, seen>>

\* Lines 219-226: a comment block with a closing tag.
CommentBlock ==
    /\ pc = "scan"
    /\ \E it \in {iteration(index)} :
           /\ AtTag(it) /\ ~is_literal_comment(it) /\ is_comment_open(it)
           /\ \E ce \in {close_end(it)} :
                  /\ ce # <<>>
                  /\ output' = output \o Slice(input, index, it.start)
                                 \o <<"{", "{", "!", "-", "-">> \o inner(it, ce[1]) \o <<"-", "-", "}", "}">>
                  /\ index' = ce[1].end
           /\ last' = Did("comment_block", it)
    /\ UNCHANGED <<frags, input, options, diagnostics, stack, pc, seen>>

\* Lines 227-235: a comment block without a closing tag.
CommentUnclosed ==
    /\ pc = "scan"
    /\ \E it \in {iteration(index)} :
           /\ AtTag(it) /\ ~is_literal_comment(it) /\ is_comment_open(it)
           /\ close_end(it) = <<>>
           /\ diagnostics' = push(diagnostics, UnclosedComment)
           /\ output' = output \o Slice(input, index, it.start)
                          \o Slice(input, it.start, it.tag_end)
           /\ index' = it.tag_end
           /\ last' = Did("comment_unclosed", it)
    /\ UNCHANGED <<frags, input, options, stack, pc, seen>>

\* Lines 238-248: every other tag goes through transform_tag and is wrapped.
Tag ==
    /\ pc = "scan"
    /\ \E it \in {iteration(index)} :
           /\ AtTag(it) /\ ~is_literal_comment(it) /\ ~is_comment_open(it)
           /\ \E t \in {transform_tag(it.token_trim, stack, options, diagnostics)} :
                  /\ stack' = t.stack
                  /\ diagnostics' = t.diagnostics
                  /\ output' = output \o Slice(input, index, it.start)
                                 \o wrap(it, t.result)
           /\ index' = it.tag_end
           /\ last' = Did("tag", it)
           /\ seen' = Append(seen, it.token_trim)
    /\ UNCHANGED <<frags, input, options, pc>>

\* The diagnostics of lines 253-260: one per entry left on the stack.  The for
\* loop consumes the stack by value; the entries it visited are kept here.
unclosed(s) == [i \in 1..Len(s) |-> UnclosedEach]

\* Lines 251-262: no opening delimiter is left.
Finish ==
    /\ pc = "scan"
    /\ iteration(index).relative_start = None
    /\ output' = output \o From(input, index)
    /\ diagnostics' = diagnostics \o unclosed(stack)
    /\ pc' = "returned"
    /\ last' = [kind |-> "finish", start |-> Len(input), token |-> <<>>]
    /\ UNCHANGED <<frags, input, options, index, stack, seen>>

Next ==
    \/ Unterminated
    \/ LiteralComment
    \/ CommentBlock
    \/ CommentUnclosed
    \/ Tag
    \/ Finish

Spec == Init /\ [][Next]_vars

(***************************************************************************)
(* Vocabulary of the properties.                                           *)
(***************************************************************************)

Count(seq, x) == Cardinality({i \in 1..Len(seq) : seq[i] = x})

IsPrefix(a, b) == Len(a) <= Len(b) /\ SubSeq(b, 1, Len(a)) = a

\* The iteration the driver is about to run finds a closed tag that it hands
\* to transform_tag.
Routed(it) ==
    /\ pc = "scan" /\ AtTag(it)
    /\ ~starts_with(it.token_trim, <<"!", "-", "-">>)
    /\ ~starts_with(it.token_trim, <<"#", "c", "o", "m", "m", "e", "n", "t">>)

\* The literal text copied before the tag of the iteration.
Literal(it) == Slice(input, index, it.start)

\* A rewritten tag body between the delimiters of the source tag, padded.
Padded(it, body) ==
    IF it.is_triple THEN <<"{", "{", "{", " ">> \o body \o <<" ", "}", "}", "}">> ELSE <<"{", "{", " ">> \o body \o <<" ", "}", "}">>

\* The #each tokens opened and not yet closed after the tokens of log, the
\* innermost last: an #each opens one, a /each closes the innermost if any.
RECURSIVE OpenBlocks(_)
OpenBlocks(log) ==
    IF log = <<>> THEN <<>>
    ELSE LET before == OpenBlocks(SubSeq(log, 1, Len(log) - 1))
             t == log[Len(log)]
         IN  IF starts_with(t, <<"#", "e", "a", "c", "h">>) THEN Append(before, t)
             ELSE IF t = <<"/", "e", "a", "c", "h">> /\ before # <<>>
             THEN SubSeq(before, 1, Len(before) - 1)
             ELSE before

\* The alias an #each token of the fragment library binds.
AliasOf(token) == IF token = <<"#", "e", "a", "c", "h", " ", "a", " ", "a", "s", " ", "|", "x", "|">> THEN <<"x">> ELSE <<"i", "t", "e", "m">>

Opens(log) == Cardinality({i \in 1..Len(log) : starts_with(log[i], <<"#", "e", "a", "c", "h">>)})

MatchedCloses(log) ==
    Cardinality({i \in 1..Len(log) :
                    log[i] = <<"/", "e", "a", "c", "h">> /\ OpenBlocks(SubSeq(log, 1, i - 1)) # <<>>})

\* Offset of the k-th fragment in the input.
FragStart(k) == Len(Concat(SubSeq(frags, 1, k - 1)))

\* Fragment j is not a tag of its own: an unterminated {{u before it, with
\* nothing but brace-free text between, runs up to the first }} of fragment j.
Swallowed(j) ==
    \E i \in 1..(j - 1) :
        frags[i] = "open" /\ \A m \in (i + 1)..(j - 1) : frags[m] = "text"

\* The {{ /comment }} tags after fragment k.
Closers(k) ==
    {j \in (k + 1)..Len(frags) : frags[j] = "comment_end" /\ ~Swallowed(j)}

\* The driver stands at fragment k, a {{#comment}} tag that has a closing tag.
AtClosedComment(it, k) ==
    /\ pc = "scan" /\ AtTag(it)
    /\ frags[k] = "comment" /\ it.start = FragStart(k)
    /\ it.token_trim = <<"#", "c", "o", "m", "m", "e", "n", "t">>
    /\ Closers(k) # {}

FirstCloser(k) == CHOOSE j \in Closers(k) : \A m \in Closers(k) : j <= m

\* The number of leading ../ segments of a token.
LeadingParents(t) ==
    CHOOSE n \in 0..Len(t) :
        /\ \A i \in 0..(n - 1) : matches_at(t, <<".", ".", "/">>, 3 * i)
        /\ ~matches_at(t, <<".", ".", "/">>, 3 * n)

\* Rules 2 and 3 of the expression rewriter; alias is <<>> or <<a>>.
AliasRules(t, alias) ==
    LET prefix == IF alias = <<>> THEN <<>> ELSE alias[1] \o <<".">>
    IN  IF t = <<"t", "h", "i", "s">> THEN (IF alias = <<>> THEN t ELSE alias[1])
        ELSE IF starts_with(t, <<"t", "h", "i", "s", ".">>) THEN prefix \o From(t, 5)
        ELSE IF starts_with(t, <<".", "/">>) THEN prefix \o From(t, 2)
        ELSE t

TopAlias == IF stack = <<>> THEN <<>> ELSE <<stack[Len(stack)].alias>>

StrippedMessage(n) ==
    IF n = 1 THEN "Stripped 1 parent scope segments (../)"
    ELSE IF n = 2 THEN "Stripped 2 parent scope segments (../)"
    ELSE IF n = 3 THEN "Stripped 3 parent scope segments (../)"
    ELSE "Stripped many parent scope segments (../)"

(***************************************************************************)
(* The claims.                                                             *)
(***************************************************************************)

\* C1: whenever transpile has returned, the diagnostics hold exactly one
\* Error "Unclosed block: each" for each entry still on the stack.
C1_UnclosedPerEntry ==
    pc = "returned" => Count(diagnostics, UnclosedEach) = Len(stack)

\* C2: with allow_parent = false, a tag whose trimmed token starts with ../
\* is copied to the output byte for byte, delimiters and interior spacing
\* included, and exactly one Error "Parent scope access ..." is appended.
C2_ParentTagVerbatim ==
    [][\A it \in {iteration(index)} :
          (Routed(it) /\ starts_with(it.token_trim, <<".", ".", "/">>) /\ ~options.allow_parent)
          => /\ output' = output \o Literal(it) \o Slice(input, it.start, it.tag_end)
             /\ diagnostics' = Append(diagnostics, ParentNotSupported)]_vars

\* C3: at an opening delimiter with no matching closing delimiter in the rest
\* of the input, the rest of the input from that delimiter on is appended
\* verbatim to the output produced so far, no diagnostic is added and
\* transpile returns.
C3_UnterminatedVerbatim ==
    [][\A it \in {iteration(index)} :
          (/\ pc = "scan" /\ it.relative_start # None
           /\ \A j \in it.search_start..Len(input) :
                  ~matches_at(input, IF it.is_triple THEN <<"}", "}", "}">> ELSE <<"}", "}">>, j))
          => /\ output' = output \o Literal(it) \o From(input, it.start)
             /\ diagnostics' = diagnostics
             /\ stack' = stack
             /\ pc' = "returned"]_vars

W_C3 ==
    /\ pc = "returned" /\ last.kind = "unterminated"
    /\ frags = <<"this", "text", "open">>
    /\ output = <<"{", "{", " ", "t", "h", "i", "s", " ", "}", "}", "t", "{", "{", "u">>
    /\ diagnostics = <<ThisWithoutEach>>

\* C4: a /each tag emits /for and pops at most one entry: with a non-empty
\* stack the top entry goes and no diagnostic is added, with an empty stack the
\* stack stays empty and one Error "Unexpected closing tag /each" is appended;
\* the scan continues after the tag either way.
C4_CloseEach ==
    [][\A it \in {iteration(index)} :
          (Routed(it) /\ it.token_trim = <<"/", "e", "a", "c", "h">>)
          => /\ output' = output \o Literal(it) \o Padded(it, <<"/", "f", "o", "r">>)
             /\ IF stack = <<>>
                THEN /\ stack' = <<>>
                     /\ diagnostics' = Append(diagnostics, UnexpectedClose)
                ELSE /\ stack' = SubSeq(stack, 1, Len(stack) - 1)
                     /\ diagnostics' = diagnostics
             /\ pc' = "scan"
             /\ index' = it.tag_end]_vars

W_C4 ==
    /\ frags = <<"each_close", "each_x", "each_close">>
    /\ last.kind = "tag" /\ last.token = <<"/", "e", "a", "c", "h">> /\ index = Len(input)
    /\ output = <<"{", "{", " ", "/", "f", "o", "r", " ", "}", "}", "{", "{", " ", "#", "f", "o", "r", " ", "x", " ", "i", "n", " ", "a", " ", "}", "}", "{", "{", " ", "/", "f", "o", "r", " ", "}", "}">>
    /\ stack = <<>>
    /\ diagnostics = <<UnexpectedClose>>

\* C5: a bare this, this.<rest> or ./<rest> tag is rewritten with the alias of
\* the most recently opened, not yet closed each-block, which is the top of
\* the stack; when every opened block has been closed the stack is empty and
\* no "Unclosed block" diagnostic is emitted.
C5_InnermostAlias ==
    [][/\ \A it \in {iteration(index)} :
             (Routed(it) /\ OpenBlocks(seen) # <<>>)
             => LET open == OpenBlocks(seen)
                    alias == AliasOf(open[Len(open)])
                    t == it.token_trim
                IN  /\ stack # <<>> /\ stack[Len(stack)].alias = alias
                    /\ t = <<"t", "h", "i", "s">>
                         => output' = output \o Literal(it) \o Padded(it, alias)
                    /\ starts_with(t, <<"t", "h", "i", "s", ".">>)
                         => output' = output \o Literal(it)
                                        \o Padded(it, alias \o <<".">> \o From(t, 5))
                    /\ starts_with(t, <<".", "/">>)
                         => output' = output \o Literal(it)
                                        \o Padded(it, alias \o <<".">> \o From(t, 2))
       /\ OpenBlocks(seen') = <<>>
             => stack' = <<>> /\ Count(diagnostics', UnclosedEach) = 0]_vars

W_C5 ==
    /\ frags = <<"each_x", "inner", "this">>
    /\ last.kind = "tag" /\ last.token = <<"t", "h", "i", "s">>
    /\ stack = <<Each(<<"x">>)>>
    /\ output = <<"{", "{", " ", "#", "f", "o", "r", " ", "x", " ", "i", "n", " ", "a", " ", "}", "}", "{", "{", " ", "#", "f", "o", "r", " ", "i", "t", "e", "m", " ", "i", "n", " ", "c", " ", "}", "}", "{", "{", " ", "i", "t", "e", "m", " ", "}", "}", "{", "{", " ", "/", "f", "o", "r", " ", "}", "}", "{", "{", " ", "x", " ", "}", "}">>

\* C6: a {{#comment}} tag followed by a /comment tag becomes {{!-- inner --}},
\* inner being the source text between the opening tag and the first
\* subsequent /comment tag, further {{#comment}} opens not counted, and the
\* scan resumes right after that closing tag.
C6_CommentBlock ==
    [][\A it \in {iteration(index)} : \A k \in 1..Len(frags) :
          AtClosedComment(it, k)
          => LET j == FirstCloser(k)
             IN  /\ output' = output \o Literal(it) \o <<"{", "{", "!", "-", "-">>
                                \o Slice(input, FragStart(k + 1), FragStart(j))
                                \o <<"-", "-", "}", "}">>
                 /\ index' = FragStart(j + 1)
                 /\ pc' = "scan"]_vars

W_C6 ==
    /\ frags = <<"comment", "comment", "comment_end">>
    /\ last.kind = "comment_block" /\ last.start = 0
    /\ output = <<"{", "{", "!", "-", "-", "{", "{", "#", "c", "o", "m", "m", "e", "n", "t", "}", "}", "-", "-", "}", "}">>
    /\ index = Len(input)

\* C7: with allow_parent = true, all N >= 1 leading ../ segments of a bare
\* expression token are stripped, one Warning "Stripped N parent scope
\* segments (../)" with that N is appended, and the remainder is rewritten by
\* the alias rules.
C7_StripParents ==
    [][\A it \in {iteration(index)} :
          (Routed(it) /\ starts_with(it.token_trim, <<".", ".", "/">>) /\ options.allow_parent)
          => LET n == LeadingParents(it.token_trim)
                 rem == From(it.token_trim, 3 * n)
             IN  /\ n >= 1
                 /\ output' = output \o Literal(it)
                                \o Padded(it, AliasRules(rem, TopAlias))
                 /\ diagnostics' =
                        Append(diagnostics, Diagnostic("Warning", StrippedMessage(n)))
                        \o (IF rem = <<"t", "h", "i", "s">> /\ stack = <<>>
                            THEN <<ThisWithoutEach>> ELSE <<>>)]_vars

W_C7 ==
    /\ frags = <<"each_x", "parent2">>
    /\ options.allow_parent
    /\ last.kind = "tag" /\ last.token = <<".", ".", "/", ".", ".", "/", "t", "h", "i", "s", ".", "f">>
    /\ output = <<"{", "{", " ", "#", "f", "o", "r", " ", "x", " ", "i", "n", " ", "a", " ", "}", "}", "{", "{", " ", "x", ".", "f", " ", "}", "}">>
    /\ diagnostics = <<Diagnostic("Warning", "Stripped 2 parent scope segments (../)")>>

\* C8: the diagnostics are append-only and in encounter order: every step
\* extends them at the end, the offset scanned from never moves back, a
\* message already present is appended again, and a step that emits a
\* diagnostic for a tag goes on scanning after that tag.
C8_AppendOnly ==
    [][/\ IsPrefix(diagnostics, diagnostics')
       /\ index' >= index
       /\ \A it \in {iteration(index)} :
             /\ (pc = "scan" /\ AtTag(it) /\ diagnostics' # diagnostics)
                   => pc' = "scan" /\ index' > it.start
             /\ (Routed(it) /\ (starts_with(it.token_trim, <<"#", "w", "i", "t", "h">>)
                                   \/ it.token_trim = <<"/", "w", "i", "t", "h">>))
                   => diagnostics' = Append(diagnostics, WithNotConverted)
             /\ (Routed(it) /\ it.token_trim = <<"/", "e", "a", "c", "h">> /\ stack = <<>>)
                   => diagnostics' = Append(diagnostics, UnexpectedClose)
             /\ (Routed(it) /\ starts_with(it.token_trim, <<".", ".", "/">>)
                            /\ ~options.allow_parent)
                   => diagnostics' = Append(diagnostics, ParentNotSupported)]_vars

W_C8 ==
    /\ frags = <<"with", "with", "this">>
    /\ last.kind = "tag" /\ last.token = <<"t", "h", "i", "s">>
    /\ diagnostics = <<WithNotConverted, WithNotConverted, ThisWithoutEach>>
    /\ output = <<"{", "{", " ", "#", "w", "i", "t", "h", " ", "p", " ", "}", "}", "{", "{", " ", "#", "w", "i", "t", "h", " ", "p", " ", "}", "}", "{", "{", " ", "t", "h", "i", "s", " ", "}", "}">>

\* C9: the stack length is the number of #each tags processed minus the number
\* of /each tags processed that found a non-empty stack; only an #each tag
\* raises it, by one, and only a /each tag lowers it, by one.
C9_StackLength ==
    [][/\ Len(stack') = Opens(seen') - MatchedCloses(seen')
       /\ Len(stack') = Len(OpenBlocks(seen'))
       /\ \A it \in {iteration(index)} :
             /\ Len(stack') > Len(stack)
                   => /\ Len(stack') = Len(stack) + 1
                      /\ Routed(it) /\ starts_with(it.token_trim, <<"#", "e", "a", "c", "h">>)
             /\ Len(stack') < Len(stack)
                   => /\ Len(stack') = Len(stack) - 1
                      /\ Routed(it) /\ it.token_trim = <<"/", "e", "a", "c", "h">>
             /\ (Routed(it) /\ starts_with(it.token_trim, <<"#", "e", "a", "c", "h">>))
                   => Len(stack') = Len(stack) + 1]_vars

W_C9 ==
    /\ frags = <<"each_close", "each_x", "inner">>
    /\ pc = "returned"
    /\ Len(stack) = 1
    /\ Opens(seen) = 2 /\ Count(seen, <<"/", "e", "a", "c", "h">>) = 2 /\ MatchedCloses(seen) = 1

\* C10: a literal comment tag, and a comment block with everything between
\* its {{#comment}} and its closing tag, leave the stack and the diagnostics
\* as they are; the tags inside the block are never handed to transform_tag.
C10_CommentsLeaveState ==
    [][\A it \in {iteration(index)} :
          /\ (pc = "scan" /\ AtTag(it) /\ starts_with(it.token_trim, <<"!", "-", "-">>))
                => stack' = stack /\ diagnostics' = diagnostics /\ seen' = seen
          /\ \A k \in 1..Len(frags) :
                AtClosedComment(it, k)
                => /\ stack' = stack /\ diagnostics' = diagnostics /\ seen' = seen
                   /\ index' = FragStart(FirstCloser(k) + 1)]_vars

W_C10 ==
    /\ frags = <<"comment", "each_x", "comment_end">>
    /\ last.kind = "comment_block"
    /\ index = Len(input)
    /\ output = <<"{", "{", "!", "-", "-", "{", "{", "#", "e", "a", "c", "h", " ", "a", " ", "a", "s", " ", "|", "x", "|", "}", "}", "-", "-", "}", "}">>
    /\ stack = <<>>
    /\ diagnostics = <<>>
    /\ seen = <<>>

====
